---- MODULE Spec2Model ----
(***************************************************************************)
(* GitHub Profile Analyzer (src/src/App.tsx): the App component's state,   *)
(* the search handler fetchGitHubData, the contribution-matrix builder     *)
(* getContributionMatrix and the intensity classifier getCommitIntensity.  *)
(*                                                                         *)
(* Time is counted in whole hours since 1970-01-01T00:00Z (the code counts *)
(* milliseconds; every instant used here is a whole hour).  A date string  *)
(* "YYYY-MM-DD" is represented by its day number since 1970-01-01, an      *)
(* unparseable string by Malformed.  The host's time zone is a fixed       *)
(* offset tz (local = UTC + tz hours); daylight-saving changes are not     *)
(* modelled.                                                               *)
(***************************************************************************)
EXTENDS Integers, Sequences, FiniteSets

VARIABLES
    username,          \* useState('')      : text of the input box
    repos,             \* useState([])      : repositories shown
    contributionData,  \* useState([])      : ContributionDay records
    loading,           \* useState(false)
    toasts,            \* number of error toasts shown so far
    runs,              \* the calls of fetchGitHubData, in call order
    fetches,           \* number of network requests issued so far
    reposBy,           \* index in runs of the call that last set repos (0: none)
    dataBy,            \* index in runs of the call that last set contributionData
    token,             \* import.meta.env.VITE_GITHUB_TOKEN is set
    today,             \* the wall clock, read by new Date()
    tz,                \* the host's UTC offset in hours
    matrix,            \* contributionMatrix of the last render
    renderedAt,        \* the clock value the last render read
    renderError        \* the last render threw

vars == <<username, repos, contributionData, loading, toasts, runs, fetches,
          reposBy, dataBy, token, today, tz, matrix, renderedAt, renderError>>

(***************************************************************************)
(* Program constants.                                                      *)
(***************************************************************************)
Weeks == 52
Days == 7
HoursPerDay == 24
DaysPerWeek == 7

\* The date field of a record whose string new Date() cannot parse.
Malformed == -1
\* The time value of an Invalid Date.
NaN == -1
\* An empty cell (Array(7).fill(null)).
Null == [null |-> TRUE]

(***************************************************************************)
(* Bounds of the model.                                                    *)
(***************************************************************************)
MaxLen == 2        \* longest contribution list a response carries
MaxCount == 11     \* largest contributionCount
MaxCalls == 2      \* calls of fetchGitHubData in one session

(***************************************************************************)
(* The proleptic Gregorian calendar of ECMAScript Date objects.            *)
(***************************************************************************)
\* Day number (since 1970-01-01) of the civil date y-m-d; d may run past the
\* end of the month and then rolls over, as MakeDay does.
DaysFromCivil(y, m, d) ==
    LET yy  == IF m <= 2 THEN y - 1 ELSE y
        era == yy \div 400
        yoe == yy - era * 400
        mp  == IF m > 2 THEN m - 3 ELSE m + 9
        doy == (153 * mp + 2) \div 5 + d - 1
        doe == yoe * 365 + yoe \div 4 - yoe \div 100 + doy
    IN  era * 146097 + doe - 719468

\* The civil date of a day number.
CivilFromDays(z) ==
    LET zz  == z + 719468
        era == zz \div 146097
        doe == zz - era * 146097
        yoe == (doe - doe \div 1460 + doe \div 36524 - doe \div 146096) \div 365
        doy == doe - (365 * yoe + yoe \div 4 - yoe \div 100)
        mp  == (5 * doy + 2) \div 153
        d   == doy - (153 * mp + 2) \div 5 + 1
        m   == IF mp < 10 THEN mp + 3 ELSE mp - 9
        y   == yoe + era * 400 + (IF m <= 2 THEN 1 ELSE 0)
    IN  [year |-> y, month |-> m, day |-> d]

\* new Date(day.date): a date-only ISO string is midnight UTC of that day;
\* anything unparseable gives an Invalid Date.
ParseDate(s) == IF s = Malformed THEN NaN ELSE s * HoursPerDay

\* oneYearAgo = new Date(today); oneYearAgo.setFullYear(today.getFullYear() - 1):
\* the local calendar fields of today with the year lowered by one (29 February
\* rolls over to 1 March), at the same local time of day.
OneYearAgo(now, zone) ==
    LET local == now + zone
        civil == CivilFromDays(local \div HoursPerDay)
        hour  == local % HoursPerDay
    IN  (DaysFromCivil(civil.year - 1, civil.month, 1) + civil.day - 1) * HoursPerDay
            + hour - zone

\* Mutant of GetDay: date.getDate() (the day of the month) reduced to 0..6.
GetDate(date, zone) == CivilFromDays((date + zone) \div HoursPerDay).day % 7

\* Mutant of GetDay: ISO numbering 1..7 (Sunday = 7) instead of 0..6.
GetDayISO(date, zone) ==
    LET n == (((date + zone) \div HoursPerDay) + 4) % 7 IN IF n = 0 THEN 7 ELSE n

\* date.getDay(): the day of the week of the instant in local time, 0 = Sunday
\* (1970-01-01 was a Thursday).
GetDay(date, zone) == (((date + zone) \div HoursPerDay) + 4) % 7

(***************************************************************************)
(* Inputs of the model.                                                    *)
(***************************************************************************)
\* Two adjacent reference days whose one-year windows differ in length:
\* 2024-02-29 (365 days back to 2023-03-01) and 2024-03-01 (366 days back).
LeapDay == DaysFromCivil(2024, 2, 29)
WindowDay == DaysFromCivil(2023, 3, 1)

\* Clock values: midnight UTC and 13:00 UTC of the leap day, 13:00 UTC of the
\* day after.
RefInstants ==
    {LeapDay * HoursPerDay, LeapDay * HoursPerDay + 13, (LeapDay + 1) * HoursPerDay + 13}

\* The clock when the page is opened.
SessionStarts == {LeapDay * HoursPerDay + 13}

\* Host time zones: UTC-8, UTC, UTC+9.
TZOffsets == {-8, 0, 9}

\* Date strings of the records: around the start of the window, a week before
\* the leap day, the Saturday and the Sunday before it, the leap day (a
\* Thursday), the day after, and an unparseable string.
Dates ==
    {WindowDay, WindowDay + 1, WindowDay + 2, LeapDay - DaysPerWeek, LeapDay - 5,
     LeapDay - 4, LeapDay, LeapDay + 1, Malformed}

\* Contribution counts: both sides of every threshold of the classifier, and
\* the largest count.
Counts == {0, 1, 3, 4, 6, 7, 9, 10, MaxCount}

\* ContributionDay records: the leap day with every count, every other date
\* with one contribution.
ContributionDays ==
    {[contributionCount |-> c, date |-> LeapDay] : c \in Counts}
        \cup {[contributionCount |-> 1, date |-> d] : d \in Dates \ {LeapDay}}

SeqsUpTo(S, n) == UNION {[1..k -> S] : k \in 0..n}

\* The contribution lists a GraphQL response can carry.
Calendars == SeqsUpTo(ContributionDays, MaxLen)

(***************************************************************************)
(* getContributionMatrix (App.tsx 130-148).                                *)
(***************************************************************************)
\* Array(52).fill(null).map(() => Array(7).fill(null))
EmptyMatrix == [w \in 0..(Weeks - 1) |-> [d \in 0..(Days - 1) |-> Null]]

\* Mutant of InWindow: the upper end of the window is not checked.
InWindowNoUpper(date, oneYearAgo, now) ==
    /\ date # NaN
    /\ date >= oneYearAgo

\* date >= oneYearAgo && date <= today; every comparison with an Invalid
\* Date (NaN) is false.
InWindow(date, oneYearAgo, now) ==
    /\ date # NaN
    /\ date >= oneYearAgo
    /\ date <= now

\* Math.floor((today.getTime() - date.getTime()) / (7 * 24 * 60 * 60 * 1000))
WeekIndex(now, date) == (now - date) \div (DaysPerWeek * HoursPerDay)

\* Mutants of Fits: weekIndex <= 52, and no check at all.
FitsInclusive(weekIndex) == weekIndex <= Weeks
FitsAlways(weekIndex) == TRUE

\* if (weekIndex < 52)
Fits(weekIndex) == weekIndex < Weeks

\* The column a fitting record is stored in.
Column(weekIndex) == (Weeks - 1) - weekIndex

\* The assignments matrix[51 - weekIndex][dayIndex] = day that the forEach
\* executes, in input order.
RECURSIVE Assignments(_, _, _)
Assignments(data, now, zone) ==
    IF data = <<>> THEN <<>>
    ELSE LET day  == Head(data)
             date == ParseDate(day.date)
             rest == Assignments(Tail(data), now, zone)
         IN  IF InWindow(date, OneYearAgo(now, zone), now)
                    /\ Fits(WeekIndex(now, date))
             THEN <<[week |-> Column(WeekIndex(now, date)),
                     dayIndex |-> GetDay(date, zone),
                     day |-> day]>> \o rest
             ELSE rest

\* row[dayIndex] = day on a JavaScript array: an index past the end grows the
\* array, and the holes in between read as empty.
SetIndex(row, dayIndex, day) ==
    LET last == IF dayIndex \in DOMAIN row THEN Days - 1 ELSE dayIndex
    IN  [d \in 0..last |->
            IF d = dayIndex THEN day ELSE IF d \in DOMAIN row THEN row[d] ELSE Null]

\* Mutant of Store: a cell that holds a record keeps it (first write wins).
StoreIfEmpty(m, a) ==
    IF m.threw THEN m
    ELSE IF a.week \notin DOMAIN m.grid THEN [m EXCEPT !.threw = TRUE]
    ELSE IF m.grid[a.week][a.dayIndex] # Null THEN m
    ELSE [m EXCEPT !.grid[a.week] = SetIndex(m.grid[a.week], a.dayIndex, a.day)]

\* matrix[week][dayIndex] = day.  matrix[week] is undefined for a week outside
\* 0..51, and assigning to a property of undefined throws a TypeError.
Store(m, a) ==
    IF m.threw THEN m
    ELSE IF a.week \notin DOMAIN m.grid THEN [m EXCEPT !.threw = TRUE]
    ELSE [m EXCEPT !.grid[a.week] = SetIndex(m.grid[a.week], a.dayIndex, a.day)]

RECURSIVE StoreAll(_, _)
StoreAll(m, as) == IF as = <<>> THEN m ELSE StoreAll(Store(m, Head(as)), Tail(as))

\* The builder: a fresh grid, then one pass over contributionData.
getContributionMatrix(data, now, zone) ==
    StoreAll([grid |-> EmptyMatrix, threw |-> FALSE], Assignments(data, now, zone))

(***************************************************************************)
(* getCommitIntensity (App.tsx 122-128) and the cell rendering (265).      *)
(***************************************************************************)
\* Mutant of getCommitIntensity: count < 3 for the second tier.
getCommitIntensityStrict(count) ==
    IF count = 0 THEN "None"
    ELSE IF count < 3 THEN "Low"
    ELSE IF count <= 6 THEN "Medium"
    ELSE IF count <= 9 THEN "High"
    ELSE "VeryHigh"

\* The five class strings, named by the tier they paint.
getCommitIntensity(count) ==
    IF count = 0 THEN "None"
    ELSE IF count <= 3 THEN "Low"
    ELSE IF count <= 6 THEN "Medium"
    ELSE IF count <= 9 THEN "High"
    ELSE "VeryHigh"

\* day?.contributionCount || 0
CellCount(cell) == IF cell = Null THEN 0 ELSE cell.contributionCount

\* className of the cell: getCommitIntensity(day?.contributionCount || 0)
CellIntensity(cell) == getCommitIntensity(CellCount(cell))

(***************************************************************************)
(* The responses of the two GitHub endpoints.                              *)
(***************************************************************************)
Usernames == {"", "octocat", "torvalds"}

\* Keys pressed in the input box.
Keys == {"Enter", "Tab"}

\* Body of GET /users/{username}/repos: the user's repositories.
ReposOf(u) == {<<>>, <<[id |-> 1, name |-> u]>>}

\* contributionResult of the GraphQL call: an errors field, no user
\* (data.user null), or weeks of contributionDays (a day may be null).
GraphQLResults ==
    {[errors |-> TRUE, hasWeeks |-> FALSE, weeks |-> <<>>],
     [errors |-> FALSE, hasWeeks |-> FALSE, weeks |-> <<>>],
     [errors |-> FALSE, hasWeeks |-> TRUE, weeks |-> <<>>],
     [errors |-> FALSE, hasWeeks |-> TRUE,
      weeks |-> << <<[contributionCount |-> 1, date |-> LeapDay - DaysPerWeek]>>,
                   <<Null, [contributionCount |-> 5, date |-> LeapDay]>> >>]}

\* weeks?.flatMap(week => week.contributionDays)
RECURSIVE FlatMap(_)
FlatMap(weeks) == IF weeks = <<>> THEN <<>> ELSE Head(weeks) \o FlatMap(Tail(weeks))

\* ?.filter(Boolean)
FilterBoolean(days) == SelectSeq(days, LAMBDA d : d # Null)

\* contributions = data?.user?...?.weeks?.flatMap(...)?.filter(Boolean) || []
Contributions(result) ==
    IF result.hasWeeks THEN FilterBoolean(FlatMap(result.weeks)) ELSE <<>>

(***************************************************************************)
(* Rendering: App's body runs again after every state change and calls     *)
(* getContributionMatrix() with the clock of that moment (App.tsx 158).    *)
(***************************************************************************)
Rerender(data) ==
    LET built == getContributionMatrix(data, today, tz)
    IN  /\ matrix' = built.grid
        /\ renderError' = built.threw
        /\ renderedAt' = today

InFlight(run) ==
    run.pc \in {"awaitRepos", "awaitReposJson", "awaitContrib", "awaitContribJson"}

Finished(run) == run.pc \in {"done", "failed"}

(***************************************************************************)
(* Construction: useState initial values and the first render.             *)
(***************************************************************************)
Init ==
    /\ username = ""
    /\ repos = <<>>
    /\ contributionData = <<>>
    /\ loading = FALSE
    /\ toasts = 0
    /\ runs = <<>>
    /\ fetches = 0
    /\ reposBy = 0
    /\ dataBy = 0
    /\ token \in BOOLEAN
    /\ today \in SessionStarts
    /\ tz \in TZOffsets
    /\ matrix = getContributionMatrix(<<>>, today, tz).grid
    /\ renderedAt = today
    /\ renderError = FALSE

(***************************************************************************)
(* Handlers.                                                               *)
(***************************************************************************)
\* onChange={(e) => setUsername(e.target.value)}
SetUsername(u) ==
    /\ u # username
    /\ username' = u
    /\ Rerender(contributionData)
    /\ UNCHANGED <<repos, contributionData, loading, toasts, runs, fetches,
                   reposBy, dataBy, token, today, tz>>

\* fetchGitHubData up to its first await (App.tsx 38-51).
Begin ==
    /\ Len(runs) < MaxCalls
    /\ IF username = ""
       THEN /\ toasts' = toasts + 1
            /\ runs' = Append(runs, [pc |-> "returned", username |-> username,
                                     reposOk |-> FALSE, reposData |-> <<>>])
            /\ UNCHANGED <<loading, fetches>>
       ELSE /\ loading' = TRUE
            /\ fetches' = fetches + 1
            /\ runs' = Append(runs, [pc |-> "awaitRepos", username |-> username,
                                     reposOk |-> FALSE, reposData |-> <<>>])
            /\ UNCHANGED toasts
    /\ Rerender(contributionData)
    /\ UNCHANGED <<username, repos, contributionData, reposBy, dataBy, token,
                   today, tz>>

\* <Button onClick={fetchGitHubData} disabled={loading}>
ClickSearch ==
    /\ ~loading
    /\ Begin

\* onKeyDown={(e) => e.key === 'Enter' && fetchGitHubData()}
KeyDown(key) ==
    /\ key = "Enter"
    /\ Begin

\* Mutant of Fail: the catch block does not call setRepos([]).
FailKeepingRepos(i, reposNow) ==
    /\ toasts' = toasts + 1
    /\ contributionData' = <<>>
    /\ repos' = IF runs[i].pc = "awaitReposJson" THEN reposNow ELSE repos
    /\ loading' = FALSE
    /\ reposBy' = i
    /\ dataBy' = i
    /\ runs' = [runs EXCEPT ![i].pc = "failed", ![i].reposData = reposNow]
    /\ Rerender(<<>>)

\* catch (error) { toast(...); setContributionData([]); setRepos([]) }
\* finally { setLoading(false) }; reposNow is the run's reposData (what it
\* has passed to setRepos, if anything).
Fail(i, reposNow) ==
    /\ toasts' = toasts + 1
    /\ contributionData' = <<>>
    /\ repos' = <<>>
    /\ loading' = FALSE
    /\ reposBy' = i
    /\ dataBy' = i
    /\ runs' = [runs EXCEPT ![i].pc = "failed", ![i].reposData = reposNow]
    /\ Rerender(<<>>)

\* const reposResponse = await fetch(...); if (!reposResponse.ok) throw
\* (a rejected fetch is caught the same way).
ReposResponse(i, ok) ==
    /\ runs[i].pc = "awaitRepos"
    /\ IF ok
       THEN /\ runs' = [runs EXCEPT ![i].pc = "awaitReposJson", ![i].reposOk = TRUE]
            /\ Rerender(contributionData)
            /\ UNCHANGED <<repos, contributionData, loading, toasts, reposBy, dataBy>>
       ELSE Fail(i, runs[i].reposData)
    /\ UNCHANGED <<username, fetches, token, today, tz>>

\* const reposData = await reposResponse.json(); setRepos(reposData); then the
\* token check and the GraphQL request (App.tsx 53-91).
ReposJson(i, reposData) ==
    /\ runs[i].pc = "awaitReposJson"
    /\ IF token
       THEN /\ repos' = reposData
            /\ reposBy' = i
            /\ fetches' = fetches + 1
            /\ runs' = [runs EXCEPT ![i].pc = "awaitContrib", ![i].reposData = reposData]
            /\ Rerender(contributionData)
            /\ UNCHANGED <<contributionData, loading, toasts, dataBy>>
       ELSE /\ Fail(i, reposData)
            /\ UNCHANGED fetches
    /\ UNCHANGED <<username, token, today, tz>>

\* const contributionResponse = await fetch(graphql); if (!ok) throw
ContributionResponse(i, ok) ==
    /\ runs[i].pc = "awaitContrib"
    /\ IF ok
       THEN /\ runs' = [runs EXCEPT ![i].pc = "awaitContribJson"]
            /\ Rerender(contributionData)
            /\ UNCHANGED <<repos, contributionData, loading, toasts, reposBy, dataBy>>
       ELSE Fail(i, runs[i].reposData)
    /\ UNCHANGED <<username, fetches, token, today, tz>>

\* const contributionResult = await contributionResponse.json(); the errors
\* check; setContributionData(contributions); finally setLoading(false).
ContributionJson(i, result) ==
    /\ runs[i].pc = "awaitContribJson"
    /\ IF result.errors
       THEN Fail(i, runs[i].reposData)
       ELSE /\ contributionData' = Contributions(result)
            /\ dataBy' = i
            /\ loading' = FALSE
            /\ runs' = [runs EXCEPT ![i].pc = "done"]
            /\ Rerender(Contributions(result))
            /\ UNCHANGED <<repos, toasts, reposBy>>
    /\ UNCHANGED <<username, fetches, token, today, tz>>

Reverse(q) == [k \in 1..Len(q) |-> q[Len(q) + 1 - k]]

\* Mutant of Render: the build walks contributionData.reverse(), which reverses
\* the state array in place.
RenderReversing ==
    /\ contributionData' = Reverse(contributionData)
    /\ Rerender(Reverse(contributionData))
    /\ UNCHANGED <<username, repos, loading, toasts, runs, fetches, reposBy,
                   dataBy, token, today, tz>>

\* A render with no state change of App (theme toggle, toast state).
Render ==
    /\ Rerender(contributionData)
    /\ UNCHANGED <<username, repos, contributionData, loading, toasts, runs,
                   fetches, reposBy, dataBy, token, today, tz>>

\* Time passes.
ClockAdvance ==
    /\ \E t \in RefInstants : t > today /\ today' = t
    /\ UNCHANGED <<username, repos, contributionData, loading, toasts, runs,
                   fetches, reposBy, dataBy, token, tz, matrix, renderedAt,
                   renderError>>

Next ==
    \/ \E u \in Usernames : SetUsername(u)
    \/ ClickSearch
    \/ \E key \in Keys : KeyDown(key)
    \/ \E i \in 1..Len(runs), ok \in BOOLEAN : ReposResponse(i, ok)
    \/ \E i \in 1..Len(runs) : \E reposData \in ReposOf(runs[i].username) :
            ReposJson(i, reposData)
    \/ \E i \in 1..Len(runs), ok \in BOOLEAN : ContributionResponse(i, ok)
    \/ \E i \in 1..Len(runs), result \in GraphQLResults : ContributionJson(i, result)
    \/ Render

Spec == Init /\ [][Next]_vars

(***************************************************************************)
(* The matrix builder under every contribution list: a search whose        *)
(* GraphQL response is about to be read, the response carrying any of the  *)
(* lists of Calendars, and renders as time passes.                         *)
(***************************************************************************)
CalendarResults ==
    {[errors |-> FALSE, hasWeeks |-> TRUE, weeks |-> <<days>>] : days \in Calendars}

InitMatrix ==
    /\ username = "octocat"
    /\ repos = <<>>
    /\ contributionData = <<>>
    /\ loading = TRUE
    /\ toasts = 0
    /\ runs = <<[pc |-> "awaitContribJson", username |-> "octocat", reposOk |-> TRUE,
                reposData |-> <<>>]>>
    /\ fetches = 2
    /\ reposBy = 1
    /\ dataBy = 0
    /\ token = TRUE
    /\ today \in RefInstants
    /\ tz \in TZOffsets
    /\ matrix = getContributionMatrix(<<>>, today, tz).grid
    /\ renderedAt = today
    /\ renderError = FALSE

\* The pending run reads its GraphQL response.
ReadCalendar ==
    /\ runs[1].pc = "awaitContribJson"
    /\ \E result \in CalendarResults : ContributionJson(1, result)

NextMatrix ==
    \/ ReadCalendar
    \/ Render
    \/ ClockAdvance

MatrixSpec == InitMatrix /\ [][NextMatrix]_vars

(***************************************************************************)
(* Properties.  The grid on screen is matrix, built from contributionData  *)
(* at the instant renderedAt in the time zone tz.                          *)
(***************************************************************************)
\* The assignments of the build that produced the grid on screen.
Executed == Assignments(contributionData, renderedAt, tz)

\* The records held by the cells of the grid on screen.
Shown == {matrix[w][d] : w \in 0..51, d \in 0..6} \ {Null}

\* The window of the build on screen.
WindowStart == OneYearAgo(renderedAt, tz)

\* floor((referenceInstant - date) / 7 days) of a record with a valid date.
WeekOffset(day) == (renderedAt - ParseDate(day.date)) \div (7 * 24)

\* A record whose date parses and lies in the window that starts at ws.
EligibleFrom(ws, day) ==
    /\ day.date # Malformed
    /\ ParseDate(day.date) >= ws
    /\ ParseDate(day.date) <= renderedAt

Eligible(day) == EligibleFrom(WindowStart, day)

\* C1: the grid always has exactly 52 columns of exactly 7 rows (364 cells), and
\* no record is written at a column outside 0..51 or a row outside 0..6.
C1_Shape ==
    /\ ~renderError
    /\ DOMAIN matrix = 0..51
    /\ \A w \in DOMAIN matrix : DOMAIN matrix[w] = 0..6
    /\ Cardinality(DOMAIN matrix) * Cardinality(DOMAIN matrix[0]) = 364
    /\ LET ex == Executed
       IN  \A k \in 1..Len(ex) : ex[k].week \in 0..51 /\ ex[k].dayIndex \in 0..6

\* C1 witness: a build of a full-length list that stored one record and skipped
\* another one (malformed, out of the window or with week offset 52).
C1_Witness ==
    /\ Len(contributionData) = MaxLen
    /\ Len(Executed) >= 1
    /\ Len(Executed) < Len(contributionData)
    /\ Shown # {}

\* The tier the thresholds of the classifier assign to a count.
TierOf(c) ==
    IF c = 0 THEN "None"
    ELSE IF c \in 1..3 THEN "Low"
    ELSE IF c \in 4..6 THEN "Medium"
    ELSE IF c \in 7..9 THEN "High"
    ELSE "VeryHigh"

\* C2: the classifier maps 0 to None, 1..3 to Low, 4..6 to Medium, 7..9 to High
\* and 10 and above to VeryHigh, for every count and for every cell on screen,
\* and the tier changes exactly at 0/1, 3/4, 6/7 and 9/10.
C2_Tiers ==
    /\ \A c \in 0..MaxCount :
            /\ getCommitIntensity(c) = TierOf(c)
            /\ c < MaxCount =>
                ((getCommitIntensity(c) # getCommitIntensity(c + 1)) <=> c \in {0, 3, 6, 9})
    /\ \A w \in DOMAIN matrix : \A d \in DOMAIN matrix[w] :
            CellIntensity(matrix[w][d]) = TierOf(CellCount(matrix[w][d]))

\* C2 witness: a screen with an empty cell (None) and a cell of 10 or more
\* contributions (VeryHigh).
C2_Witness ==
    /\ \E day \in Shown : day.contributionCount >= 10 /\ CellIntensity(day) = "VeryHigh"
    /\ CellIntensity(matrix[0][0]) = "None"

\* C3: every record in a cell, and every record an assignment was executed for,
\* has a date d with windowStart <= d <= referenceInstant.
C3_Window ==
    LET ws == WindowStart
        ex == Executed
    IN  /\ \A w \in DOMAIN matrix : \A d \in DOMAIN matrix[w] :
                matrix[w][d] # Null => EligibleFrom(ws, matrix[w][d])
        /\ \A k \in 1..Len(ex) : EligibleFrom(ws, ex[k].day)

\* C3 witness: the list holds a record dated after the reference instant and one
\* dated before the window start, and the grid holds neither.
C3_Witness ==
    /\ \E i \in 1..Len(contributionData) :
            /\ contributionData[i].date # Malformed
            /\ ParseDate(contributionData[i].date) > renderedAt
    /\ \E i \in 1..Len(contributionData) :
            /\ contributionData[i].date # Malformed
            /\ ParseDate(contributionData[i].date) < WindowStart
    /\ Shown = {}

\* The day of the week of a calendar date (0 = Sunday).
DayOfWeek(date) == (date + 4) % 7

\* C4 (as claimed): every in-window record with week offset <= 51 is placed at
\* grid[51 - weekOffset][dayOfWeek(date)].
C4_Placement ==
    \A i \in 1..Len(contributionData) :
        LET day == contributionData[i]
        IN  (Eligible(day) /\ WeekOffset(day) <= 51) =>
                \E k \in 1..Len(Executed) :
                    /\ Executed[k].day = day
                    /\ Executed[k].week = 51 - WeekOffset(day)
                    /\ Executed[k].dayIndex = DayOfWeek(day.date)

\* C5: an in-window record with week offset > 51 is in no cell; a record in a
\* cell of column 0 has week offset 51; a record dated 365 days before the
\* reference day is in column 0 if and only if it is in the window with week
\* offset <= 51.
C5_Boundary ==
    /\ ~renderError
    /\ \A i \in 1..Len(contributionData) :
        LET day == contributionData[i]
        IN  /\ (Eligible(day) /\ WeekOffset(day) > 51) =>
                    /\ day \notin Shown
                    /\ \A k \in 1..Len(Executed) : Executed[k].day # day
            /\ (day.date # Malformed /\ (renderedAt \div 24) - day.date = 365) =>
                    ((\E d \in 0..6 : matrix[0][d] = day)
                        <=> (Eligible(day) /\ WeekOffset(day) <= 51))
    /\ \A d \in 0..6 : matrix[0][d] # Null => WeekOffset(matrix[0][d]) = 51

\* C5 witness: an in-window record dated 365 days before the reference day was
\* dropped while another record sits in column 0.
C5_Witness ==
    /\ \E i \in 1..Len(contributionData) :
            /\ Eligible(contributionData[i])
            /\ (renderedAt \div 24) - contributionData[i].date = 365
            /\ contributionData[i] \notin Shown
    /\ \E d \in 0..6 : matrix[0][d] # Null

\* C6: the build never throws, and when no record is stored (empty list, or
\* every record malformed or out of the window) all 364 cells are empty and
\* each is classified None.
C6_NeverRaises ==
    /\ ~renderError
    /\ (\A i \in 1..Len(contributionData) : ~Eligible(contributionData[i])) =>
            /\ matrix = [w \in 0..51 |-> [d \in 0..6 |-> Null]]
            /\ \A w \in 0..51 : \A d \in 0..6 : CellIntensity(matrix[w][d]) = "None"

\* C6 witness: a list of a malformed record and an out-of-window record gave the
\* empty grid.
C6_Witness ==
    /\ Len(contributionData) >= 2
    /\ \E i \in 1..Len(contributionData) : contributionData[i].date = Malformed
    /\ \E i \in 1..Len(contributionData) :
            /\ contributionData[i].date # Malformed
            /\ ~Eligible(contributionData[i])
    /\ Shown = {}
    /\ ~renderError

\* The assignments among ex that target the cell (w, d).
Hits(ex, w, d) == {k \in 1..Len(ex) : ex[k].week = w /\ ex[k].dayIndex = d}

Last(S) == CHOOSE k \in S : \A j \in S : j <= k

\* C7: a cell holds the record of the last assignment that targets it, in input
\* order, and a cell no assignment targets is empty.
C7_LastWriteWins ==
    LET ex == Executed
    IN  \A w \in 0..51 : \A d \in 0..6 :
            LET hits == Hits(ex, w, d)
            IN  matrix[w][d] = IF hits = {} THEN Null ELSE ex[Last(hits)].day

\* C7 witness: two records with different counts target one cell, and the cell
\* holds the later one.
C7_Witness ==
    LET ex == Executed
    IN  \E j, k \in 1..Len(ex) :
            /\ j < k
            /\ ex[j].week = ex[k].week
            /\ ex[j].dayIndex = ex[k].dayIndex
            /\ ex[j].day # ex[k].day
            /\ matrix[ex[k].week][ex[k].dayIndex] = ex[k].day

C9_SingleFlight ==
    /\ \A i \in 1..Len(runs) :
            runs[i].pc \in {"awaitContrib", "awaitContribJson", "done"} => runs[i].reposOk
    /\ Cardinality({i \in 1..Len(runs) : InFlight(runs[i])}) <= 1
    /\ \A i \in 1..Len(runs) : Finished(runs[i]) => (reposBy >= i /\ dataBy >= i)

\* C10: a step in which a run fails ends with repos and contributionData empty,
\* loading false and one more toast; a call with an empty username shows a
\* toast, issues no request and leaves repos, contributionData and loading alone.
C10_FailureClears ==
    [][/\ \A i \in 1..Len(runs) :
            (runs[i].pc # "failed" /\ runs'[i].pc = "failed") =>
                /\ repos' = <<>>
                /\ contributionData' = <<>>
                /\ loading' = FALSE
                /\ toasts' = toasts + 1
       /\ Len(runs') > Len(runs) =>
            /\ (runs'[Len(runs')].pc = "returned") <=> (username = "")
            /\ runs'[Len(runs')].pc = "returned" =>
                /\ toasts' = toasts + 1
                /\ fetches' = fetches
                /\ UNCHANGED <<repos, contributionData, loading>>]_vars

\* C10 witness: a run failed after its repositories call had stored a non-empty
\* list, and a call with an empty username returned.
C10_Witness ==
    /\ \E i \in 1..Len(runs) :
            /\ runs[i].pc = "failed"
            /\ runs[i].reposData # <<>>
    /\ \E i \in 1..Len(runs) : runs[i].pc = "returned"
    /\ repos = <<>>
    /\ contributionData = <<>>
    /\ ~loading
    /\ toasts = 2

\* The cells of the grid on screen that hold a record, with the column of each.
Placed ==
    {p \in {[week |-> w, day |-> matrix[w][d]] : w \in 0..51, d \in 0..6} :
        p.day # Null}

====
